---- MODULE Spec2Model ----
(***************************************************************************)
(* The JWKS key cache of src/auth/jwks.rs: JwksCache::get_key and          *)
(* JwksCache::refresh_keys, run by several tokio tasks that share one      *)
(* Arc<JwksCache>.  Every .await of the source is a point where another    *)
(* task may run, so each lock acquisition, each critical section and the   *)
(* HTTP round trip is a step of its own.                                   *)
(***************************************************************************)
EXTENDS Integers, Sequences, FiniteSets, TLC

\* ------------------------------------------------------------------ bounds
\* Number of concurrent callers of get_key.
NumTasks == 2
\* Number of times the clock advances in a run.
MaxTicks == 1
\* Longest key-set document of the parsing specification SpecBuild.
MaxDocLen == 2

\* ------------------------------------------------------- program constants
\* Duration::from_secs(3600), in seconds.
cache_duration == 3600

Tasks == 1..NumTasks
NoTask == 0
None == "None"
\* Option<Instant>
NoInstant == << >>
Some(instant) == << instant >>

\* --------------------------------------------------------- JWKS documents
\* Key identifiers of the documents.
Kids == {"k1", "k2"}
\* Key identifiers get_key is called with; "kx" is published in no document.
CallKids == {"k1", "kx"}

\* Strings that are valid base64url (the modulus and exponent encoding).
Base64Url == {"n1", "n2", "AQAB"}

\* One JwkKey as deserialized: alg, n, e are Option<String>.
JwkKey(kty, kid, alg, n, e) == [kty |-> kty, kid |-> kid, alg |-> alg, n |-> n, e |-> e]

\* The key-set documents the provider publishes over time.
\*  doc1: k1 (RS256); the entry of k2 names an algorithm outside RSA-SHA*.
\*  doc2: after a rotation: k1 with new key material and no declared
\*        algorithm, and k2.
\*  doc3: nothing usable: an EC key, a missing modulus, an undecodable modulus.
Documents ==
  [ doc1 |-> << JwkKey("RSA", "k1", "RS256", "n1", "AQAB"),
                JwkKey("RSA", "k2", "PS256", "n1", "AQAB") >>,
    doc2 |-> << JwkKey("RSA", "k1", None, "n2", "AQAB"),
                JwkKey("RSA", "k2", "RS512", "n2", "AQAB") >>,
    doc3 |-> << JwkKey("EC", "k1", "ES256", None, None),
                JwkKey("RSA", "k1", "RS384", None, "AQAB"),
                JwkKey("RSA", "k2", "RS384", "!!", "AQAB") >> ]

DocIds == DOMAIN Documents

\* How one GET of jwks_url can fail: send() fails, the status is not a
\* success, the body is not a JwksResponse.
FetchFailures == {"transport_error", "bad_status", "bad_json"}
\* The provider: failing, never answering, or publishing one of the documents.
ProviderStates == {"down", "stalled"} \cup DocIds

\* ------------------------------------------------------------------ state
VARIABLES
  keys,            \* JwksCache.keys: kid -> CachedKey
  last_fetch,      \* JwksCache.last_fetch: None or the Instant of the last stamp
  keys_lock,       \* the RwLock around keys: its readers and its writer
  last_fetch_lock, \* the RwLock around last_fetch
  now,             \* the monotonic clock, in seconds
  ticks,           \* how often the clock has advanced
  provider,        \* what the key-set endpoint answers at this moment
  pc,              \* per task: where it is in get_key / refresh_keys
  kid,             \* per task: the argument of get_key
  should_refresh,  \* per task: the local of get_key
  new_keys,        \* per task: the local of refresh_keys
  result,          \* per task: what the last get_key returned
  refreshes,       \* per task: refresh_keys calls made by the current get_key
  stable,          \* the provider has answered the same way all along
  latest,          \* history: task and key set of the most recent successful fetch
  failed_since,    \* history: a refresh failed since keys was last written
  tracing,         \* whether this run keeps the history variables
  jwks,            \* SpecBuild: the document handed to the parsing loop
  built,           \* SpecBuild: the mapping the loop built from jwks
  clerk_config,    \* SpecAuth: ClerkConfig: issuer and audience
  request,         \* SpecAuth: the Authorization header and what its token decodes to
  unix_time,       \* SpecAuth: the system time at which the token is validated
  stage,           \* SpecAuth: how far require_auth has come with the request
  token,           \* SpecAuth: the local `token` of require_auth
  resolved,        \* SpecAuth: what get_key returned to require_auth
  extensions,      \* SpecAuth: the AuthenticatedUser in the request extensions
  response,        \* SpecAuth: the response sent for the request
  handler          \* SpecAuth: whether the next handler ran, and the Claims it extracted

cache_vars == <<keys, last_fetch, keys_lock, last_fetch_lock>>
task_vars == <<pc, kid, should_refresh, new_keys, result, refreshes>>
env_vars == <<now, ticks, provider, stable>>
history_vars == <<latest, failed_since, tracing>>
auth_vars == <<clerk_config, request, unix_time, stage, token, resolved,
               extensions, response, handler>>
build_vars == <<jwks, built, auth_vars>>
vars == <<cache_vars, task_vars, env_vars, history_vars, build_vars>>

\* ------------------------------------------------------- refresh_keys: parsing
EmptyKeys == [k \in {} |-> None]

\* HashMap::insert: a later entry with the same kid replaces the earlier one.
HashMapInsert(map, k, v) == [x \in DOMAIN map \cup {k} |-> IF x = k THEN v ELSE map[x]]

CachedKey(decoding_key, algorithm) == [decoding_key |-> decoding_key, algorithm |-> algorithm]

\* MatchAlgorithm that passes any declared algorithm through.
MatchAlgorithm_AnyDeclared(alg) ==
  IF alg = None THEN "RS256" ELSE alg

\* The match on key.alg: Some("RS256") | None, Some("RS384"), Some("RS512");
\* any other name is skipped.
MatchAlgorithm(alg) ==
  CASE alg = "RS256" \/ alg = None -> "RS256"
    [] alg = "RS384" -> "RS384"
    [] alg = "RS512" -> "RS512"
    [] OTHER -> "continue"

\* DecodingKey::from_rsa_components(&n, &e): Err when either is not base64url.
FromRsaComponents(n, e) ==
  IF n \in Base64Url /\ e \in Base64Url
  THEN [ok |-> TRUE, key |-> <<n, e>>]
  ELSE [ok |-> FALSE, key |-> << >>]

\* LoopBody that keeps the first entry of a kid (entry().or_insert()).
LoopBody_KeepingFirst(map, key) ==
  IF key.kty # "RSA" THEN map
  ELSE IF key.n = None THEN map
  ELSE IF key.e = None THEN map
  ELSE IF MatchAlgorithm(key.alg) = "continue" THEN map
  ELSE IF ~FromRsaComponents(key.n, key.e).ok THEN map
  ELSE IF key.kid \in DOMAIN map THEN map
  ELSE HashMapInsert(map, key.kid,
                     CachedKey(FromRsaComponents(key.n, key.e).key,
                               MatchAlgorithm(key.alg)))

\* One iteration of `for key in jwks.keys`.
LoopBody(map, key) ==
  IF key.kty # "RSA" THEN map
  ELSE IF key.n = None THEN map
  ELSE IF key.e = None THEN map
  ELSE IF MatchAlgorithm(key.alg) = "continue" THEN map
  ELSE IF ~FromRsaComponents(key.n, key.e).ok THEN map
  ELSE HashMapInsert(map, key.kid,
                     CachedKey(FromRsaComponents(key.n, key.e).key,
                               MatchAlgorithm(key.alg)))

\* The whole loop, entry by entry in document order, from HashMap::new().
RECURSIVE BuildFrom(_, _)
BuildFrom(map, entries) ==
  IF entries = << >> THEN map
  ELSE BuildFrom(LoopBody(map, Head(entries)), Tail(entries))

BuildKeys(entries) == BuildFrom(EmptyKeys, entries)

\* ------------------------------------------------------------ results
NoKey == [decoding_key |-> << >>, algorithm |-> None]
NoResult == [kind |-> None, key |-> NoKey]
Ok(cached) == [kind |-> "Ok", key |-> cached]
Err(kind) == [kind |-> kind, key |-> NoKey]

\* ------------------------------------------------------------ locks
Unlocked == [readers |-> {}, writer |-> NoTask]
CanRead(lock) == lock.writer = NoTask
CanWrite(lock) == lock.writer = NoTask /\ lock.readers = {}
ReadLocked(lock, t) == [lock EXCEPT !.readers = @ \cup {t}]
ReadUnlocked(lock, t) == [lock EXCEPT !.readers = @ \ {t}]
WriteLocked(lock, t) == [lock EXCEPT !.writer = t]
WriteUnlocked(lock) == [lock EXCEPT !.writer = NoTask]

\* IsStale with the comparison off by one: a cache exactly one window old
\* counts as stale.
IsStale_Inclusive(fetched, clock) ==
  IF fetched = NoInstant THEN TRUE ELSE clock - fetched[1] >= cache_duration

\* instant.elapsed() > self.cache_duration, or no fetch yet.
IsStale(fetched, clock) ==
  IF fetched = NoInstant THEN TRUE ELSE clock - fetched[1] > cache_duration

\* ------------------------------------------------------------ require_auth: data
\* A &str is the sequence of its characters.
Absent == << >>

BearerPrefix == <<"B", "e", "a", "r", "e", "r", " ">>
bearerPrefix == <<"b", "e", "a", "r", "e", "r", " ">>

\* str::strip_prefix: Some(the rest) when s starts with prefix, else None.
StripPrefix(s, prefix) ==
  IF Len(s) >= Len(prefix) /\ SubSeq(s, 1, Len(prefix)) = prefix
  THEN Some(SubSeq(s, Len(prefix) + 1, Len(s)))
  ELSE Absent

\* auth_header.strip_prefix("Bearer ").or_else(|| auth_header.strip_prefix("bearer "))
extract_bearer_token(auth_header) ==
  IF StripPrefix(auth_header, BearerPrefix) # Absent
  THEN StripPrefix(auth_header, BearerPrefix)
  ELSE StripPrefix(auth_header, bearerPrefix)

\* The letters of the scheme names, in both cases.
ToUpper(c) ==
  CASE c = "b" -> "B" [] c = "e" -> "E" [] c = "a" -> "A" [] c = "r" -> "R"
    [] c = "s" -> "S" [] c = "i" -> "I" [] c = "c" -> "C" [] OTHER -> c
ToLower(c) ==
  CASE c = "B" -> "b" [] c = "E" -> "e" [] c = "A" -> "a" [] c = "R" -> "r"
    [] c = "S" -> "s" [] c = "I" -> "i" [] c = "C" -> "c" [] OTHER -> c

\* Every spelling of a word that differs from it in letter case only.
CaseVariants(word) ==
  { w \in [1..Len(word) -> {word[i] : i \in 1..Len(word)} \cup {ToUpper(word[i]) : i \in 1..Len(word)}] :
      \A i \in 1..Len(word) : ToLower(w[i]) = ToLower(word[i]) }

\* The Authorization header values a request can carry: a scheme in any
\* letter case (or another scheme, or none), a space or not, and a token.
Schemes == CaseVariants(<<"b", "e", "a", "r", "e", "r">>)
             \cup {<<"B", "a", "s", "i", "c">>, << >>}
Separators == {<<" ">>, << >>}
TokenTexts == {<<"a", "b", "c", "1", "2", "3">>, <<"e", "y", "J">>, << >>}
HeaderValues == { sch \o sep \o tok : sch \in Schemes, sep \in Separators, tok \in TokenTexts }

\* request.headers().get(AUTHORIZATION): no header, a value that is not
\* visible ASCII (to_str() fails), or text.
AuthorizationHeaders ==
  {[kind |-> "absent", value |-> << >>], [kind |-> "opaque", value |-> << >>]}
    \cup {[kind |-> "text", value |-> v] : v \in HeaderValues}

\* ClerkConfig: the issuer, and the audience when CLERK_AUDIENCE is set.
Issuer == "https://clerk.example"
ClerkConfigs == {[issuer |-> Issuer, audience |-> a] : a \in {Absent, Some("app")}}

\* The aud claim of a token: none, one string, or an array of strings.
Audiences ==
  {[kind |-> "absent", values |-> {}],
   [kind |-> "single", values |-> {"app"}],
   [kind |-> "single", values |-> {"other"}],
   [kind |-> "multiple", values |-> {"app", "other"}]}

\* Seconds between exp (or nbf) and the time of validation.
ExpOffsets == {-61, -60, -1, 0, 1}
NbfOffsets == {-10, 100}

\* The time of validation, seconds since the epoch.
ValidationTime == 1000

\* The payload of a token: whether it has the fields Claims requires
\* (sub, iss, exp, iat), and the claims that validation looks at.
Payloads ==
  [complete : BOOLEAN,
   iss : {Issuer, "https://clerk.example/", "https://other.example"},
   aud : Audiences,
   exp : {ValidationTime + d : d \in ExpOffsets},
   nbf : {Absent} \cup {Some(ValidationTime + d) : d \in NbfOffsets}]

DefaultPayload ==
  [complete |-> TRUE, iss |-> Issuer, aud |-> [kind |-> "absent", values |-> {}],
   exp |-> ValidationTime + 1, nbf |-> Absent]

\* What a token text decodes to: a header that does not parse, that has no
\* kid, or that names a kid; whether its signature verifies under the key
\* that get_key returns for that kid; and its payload.
Jwts ==
  {[header |-> h, alg |-> "RS256", signature |-> "valid", claims |-> DefaultPayload] :
     h \in {"malformed", "no_kid"}}
  \cup {[header |-> "kid", alg |-> "RS256", signature |-> sig, claims |-> c] :
          sig \in {"valid", "invalid"}, c \in Payloads}

DefaultJwt ==
  [header |-> "malformed", alg |-> "RS256", signature |-> "valid", claims |-> DefaultPayload]

\* The requests: the token is looked at only when a token was extracted,
\* and an empty token has no header to parse.
Requests ==
  {[authorization |-> a, jwt |-> j] :
     a \in {h \in AuthorizationHeaders :
              h.kind = "text" /\ extract_bearer_token(h.value) \notin {Absent, Some(<< >>)}},
     j \in Jwts}
  \cup {[authorization |-> a, jwt |-> DefaultJwt] : a \in AuthorizationHeaders}

\* What jwks_cache.get_key(&kid) can return to require_auth.
GetKeyResults ==
  {Ok(CachedKey(<<"n1", "AQAB">>, alg)) : alg \in {"RS256", "RS384"}}
    \cup {Err(kind) : kind \in {"KeyNotFound", "FetchError", "ParseError"}}

\* AuthError, with the text of its message left out.
AuthErrors == {"MissingToken", "InvalidToken", "ExpiredToken", "InvalidIssuer", "JwksError"}

NoResponse == [status |-> 0, body_status |-> 0, error |-> None]

\* IntoResponse that answers every error with 401.
IntoResponse_AlwaysUnauthorized(error) ==
  [status |-> 401, body_status |-> 401, error |-> error]

\* impl IntoResponse for AuthError: the status, and the "status" of the body.
IntoResponse(error) ==
  LET status == CASE error = "MissingToken" -> 401
                  [] error = "InvalidToken" -> 401
                  [] error = "ExpiredToken" -> 401
                  [] error = "InvalidIssuer" -> 401
                  [] error = "JwksError" -> 500
  IN [status |-> status, body_status |-> status, error |-> error]

\* The clock-skew allowance of Validation::new, which require_auth does
\* not change, in seconds.
leeway == 60

\* Validation::new without a clock-skew allowance.
NewValidation_NoLeeway(algorithm) ==
  [algorithms |-> {algorithm}, leeway |-> 0, validate_exp |-> TRUE,
   validate_nbf |-> FALSE, validate_aud |-> TRUE, iss |-> Absent, aud |-> Absent]

\* Validation::new(algorithm): exp is validated, nbf is not, aud is, and
\* neither an issuer nor an audience is expected yet.
NewValidation(algorithm) ==
  [algorithms |-> {algorithm}, leeway |-> leeway, validate_exp |-> TRUE,
   validate_nbf |-> FALSE, validate_aud |-> TRUE, iss |-> Absent, aud |-> Absent]

\* ConfigureValidation that leaves the issuer unset.
ConfigureValidation_NoIssuer(algorithm, config) ==
  IF config.audience # Absent
  THEN [NewValidation(algorithm) EXCEPT !.aud = Some({config.audience[1]})]
  ELSE [NewValidation(algorithm) EXCEPT !.validate_aud = FALSE]

\* validation.set_issuer(&[&clerk_config.issuer]); then set_audience(&[aud])
\* when an audience is configured, else validate_aud = false.
ConfigureValidation(algorithm, config) ==
  LET v == [NewValidation(algorithm) EXCEPT !.iss = Some({config.issuer})]
  IN IF config.audience # Absent
     THEN [v EXCEPT !.aud = Some({config.audience[1]})]
     ELSE [v EXCEPT !.validate_aud = FALSE]

\* serde: the payload deserializes into Claims when the required fields
\* are there and aud, an Option<String>, is one string or missing.
DeserializesIntoClaims(claims) ==
  claims.complete /\ claims.aud.kind # "multiple"

\* decode::<Claims>(token, &decoding_key, &validation): the kinds of error
\* it can end with, or "none".  The algorithm and the signature come first,
\* then the payload is deserialized, then exp, nbf, iss and aud are
\* validated in this order.  A token without aud, validated against an
\* expected audience, passes or fails with the version of the library.
DecodeErrorKinds(jwt, validation, time) ==
  IF jwt.alg \notin validation.algorithms THEN {"InvalidAlgorithm"}
  ELSE IF jwt.signature # "valid" THEN {"InvalidSignature"}
  ELSE IF ~DeserializesIntoClaims(jwt.claims) THEN {"Json"}
  ELSE IF validation.validate_exp /\ jwt.claims.exp < time - validation.leeway
  THEN {"ExpiredSignature"}
  ELSE IF /\ validation.validate_nbf
          /\ jwt.claims.nbf # Absent
          /\ jwt.claims.nbf[1] > time + validation.leeway
  THEN {"ImmatureSignature"}
  ELSE IF validation.iss # Absent /\ jwt.claims.iss \notin validation.iss[1]
  THEN {"InvalidIssuer"}
  ELSE IF ~validation.validate_aud THEN {"none"}
  ELSE IF validation.aud = Absent THEN {"none"}
  ELSE IF jwt.claims.aud.kind = "absent" THEN {"none", "InvalidAudience"}
  ELSE IF jwt.claims.aud.values \cap validation.aud[1] = {} THEN {"InvalidAudience"}
  ELSE {"none"}

\* .map_err(|e| match e.kind() { ExpiredSignature => ExpiredToken,
\*   InvalidIssuer => InvalidIssuer, _ => InvalidToken(..) })
MapDecodeError(kind) ==
  CASE kind = "ExpiredSignature" -> "ExpiredToken"
    [] kind = "InvalidIssuer" -> "InvalidIssuer"
    [] OTHER -> "InvalidToken"

NoClaims == [present |-> FALSE, claims |-> DefaultPayload]
SomeClaims(claims) == [present |-> TRUE, claims |-> claims]

\* No request is being handled.
AuthIdle ==
  /\ clerk_config = [issuer |-> Issuer, audience |-> Absent]
  /\ request = [authorization |-> [kind |-> "absent", value |-> << >>], jwt |-> DefaultJwt]
  /\ unix_time = ValidationTime
  /\ stage = "NoToken"
  /\ token = Absent
  /\ resolved = NoResult
  /\ extensions = NoClaims
  /\ response = NoResponse
  /\ handler = [ran |-> FALSE, claims |-> NoClaims]

\* ------------------------------------------------------------ initial state
InitCache ==
  /\ keys = EmptyKeys
  /\ last_fetch = NoInstant
  /\ keys_lock = Unlocked
  /\ last_fetch_lock = Unlocked
  /\ now = 0
  /\ ticks = 0
  /\ provider \in ProviderStates
  /\ pc = [t \in Tasks |-> "idle"]
  /\ kid = [t \in Tasks |-> None]
  /\ should_refresh = [t \in Tasks |-> FALSE]
  /\ new_keys = [t \in Tasks |-> EmptyKeys]
  /\ result = [t \in Tasks |-> NoResult]
  /\ refreshes = [t \in Tasks |-> 0]
  /\ latest = [task |-> NoTask, keys |-> EmptyKeys]
  /\ failed_since = FALSE
  /\ stable = TRUE

\* JwksCache::new, with no history kept.
Init ==
  /\ InitCache
  /\ tracing = FALSE
  /\ jwks = << >>
  /\ built = [done |-> FALSE, keys |-> EmptyKeys]
  /\ AuthIdle

\* JwksCache::new, with the history variables kept up to date.
InitTraced ==
  /\ InitCache
  /\ tracing = TRUE
  /\ jwks = << >>
  /\ built = [done |-> FALSE, keys |-> EmptyKeys]
  /\ AuthIdle

\* ------------------------------------------------------------ history
\* What a step was, read off the task's position before and after it.
Parsed(t) == pc[t] = "awaiting" /\ pc'[t] = "swap_wait"
Failed(t) == pc[t] = "awaiting" /\ pc'[t] = "idle"
Swapped(t) == pc[t] = "swap" /\ pc'[t] = "stamp_wait"
Stamped(t) == pc[t] = "stamp" /\ pc'[t] = "retry_lookup"

\* In a traced run the history variables record which fetch succeeded last
\* and whether a refresh failed since keys was written.  They are read by
\* no action.
RecordHistory ==
  /\ tracing' = tracing
  /\ IF tracing
     THEN /\ latest' = IF \E t \in Tasks : Parsed(t)
                       THEN LET t == CHOOSE u \in Tasks : Parsed(u)
                            IN [task |-> t, keys |-> new_keys'[t]]
                       ELSE latest
          /\ failed_since' = IF \E t \in Tasks : Failed(t) THEN TRUE
                             ELSE IF \E t \in Tasks : Swapped(t) THEN FALSE
                             ELSE failed_since
     ELSE UNCHANGED <<latest, failed_since>>

\* ------------------------------------------------------------ get_key
\* A read section of the source holds its guard over no .await: acquiring
\* the guard, reading and dropping it is one step, enabled when no writer
\* holds the lock.  A write section is entered in one step and left in the
\* next, so that readers and writers can be seen to wait for it.

\* A task calls get_key(kid).
Call(t, k) ==
  /\ pc[t] = "idle"
  /\ pc' = [pc EXCEPT ![t] = "get_key"]
  /\ kid' = [kid EXCEPT ![t] = k]
  /\ result' = [result EXCEPT ![t] = NoResult]
  /\ refreshes' = [refreshes EXCEPT ![t] = 0]
  /\ UNCHANGED <<cache_vars, should_refresh, new_keys, env_vars, build_vars>>
  /\ RecordHistory

\* let should_refresh = { let last_fetch = self.last_fetch.read().await; .. };
CheckStale(t) ==
  /\ pc[t] = "get_key"
  /\ CanRead(last_fetch_lock)
  /\ last_fetch_lock' = ReadUnlocked(ReadLocked(last_fetch_lock, t), t)
  /\ should_refresh' = [should_refresh EXCEPT ![t] = IsStale(last_fetch, now)]
  /\ pc' = [pc EXCEPT ![t] = "cache_lookup"]
  /\ UNCHANGED <<keys, last_fetch, keys_lock, kid, new_keys, result, refreshes,
                 env_vars, build_vars>>
  /\ RecordHistory

\* CacheLookup that answers a miss in a fresh cache from the cache alone:
\* KeyNotFound without a refresh.
CacheLookup_NoRefreshWhenFresh(t) ==
  /\ pc[t] = "cache_lookup"
  /\ CanRead(keys_lock)
  /\ keys_lock' = ReadUnlocked(ReadLocked(keys_lock, t), t)
  /\ IF ~should_refresh[t]
     THEN /\ result' = [result EXCEPT ![t] =
                          IF kid[t] \in DOMAIN keys THEN Ok(keys[kid[t]])
                          ELSE Err("KeyNotFound")]
          /\ pc' = [pc EXCEPT ![t] = "idle"]
          /\ should_refresh' = [should_refresh EXCEPT ![t] = FALSE]
     ELSE /\ pc' = [pc EXCEPT ![t] = "refresh"]
          /\ UNCHANGED <<result, should_refresh>>
  /\ UNCHANGED <<keys, last_fetch, last_fetch_lock, kid, new_keys, refreshes,
                 env_vars, build_vars>>
  /\ RecordHistory

\* CacheLookup whose read guard is not scoped to the lookup: on the way to
\* refresh_keys the task still holds it.
CacheLookup_KeepingGuard(t) ==
  /\ pc[t] = "cache_lookup"
  /\ CanRead(keys_lock)
  /\ IF kid[t] \in DOMAIN keys /\ ~should_refresh[t]
     THEN /\ result' = [result EXCEPT ![t] = Ok(keys[kid[t]])]
          /\ pc' = [pc EXCEPT ![t] = "idle"]
          /\ should_refresh' = [should_refresh EXCEPT ![t] = FALSE]
          /\ keys_lock' = ReadUnlocked(ReadLocked(keys_lock, t), t)
     ELSE /\ pc' = [pc EXCEPT ![t] = "refresh"]
          /\ keys_lock' = ReadLocked(keys_lock, t)
          /\ UNCHANGED <<result, should_refresh>>
  /\ UNCHANGED <<keys, last_fetch, last_fetch_lock, kid, new_keys, refreshes,
                 env_vars, build_vars>>
  /\ RecordHistory

\* CacheLookup that returns a key it finds in the mapping whether or not
\* the cache is stale.
CacheLookup_ServingStale(t) ==
  /\ pc[t] = "cache_lookup"
  /\ CanRead(keys_lock)
  /\ keys_lock' = ReadUnlocked(ReadLocked(keys_lock, t), t)
  /\ IF kid[t] \in DOMAIN keys
     THEN /\ result' = [result EXCEPT ![t] = Ok(keys[kid[t]])]
          /\ pc' = [pc EXCEPT ![t] = "idle"]
          /\ should_refresh' = [should_refresh EXCEPT ![t] = FALSE]
     ELSE /\ pc' = [pc EXCEPT ![t] = "refresh"]
          /\ UNCHANGED <<result, should_refresh>>
  /\ UNCHANGED <<keys, last_fetch, last_fetch_lock, kid, new_keys, refreshes,
                 env_vars, build_vars>>
  /\ RecordHistory

\* { let keys = self.keys.read().await;
\*   if let Some(cached) = keys.get(kid) { if !should_refresh { return Ok(..) } } }
CacheLookup(t) ==
  /\ pc[t] = "cache_lookup"
  /\ CanRead(keys_lock)
  /\ keys_lock' = ReadUnlocked(ReadLocked(keys_lock, t), t)
  /\ IF kid[t] \in DOMAIN keys /\ ~should_refresh[t]
     THEN /\ result' = [result EXCEPT ![t] = Ok(keys[kid[t]])]
          /\ pc' = [pc EXCEPT ![t] = "idle"]
          /\ should_refresh' = [should_refresh EXCEPT ![t] = FALSE]
     ELSE /\ pc' = [pc EXCEPT ![t] = "refresh"]
          /\ UNCHANGED <<result, should_refresh>>
  /\ UNCHANGED <<keys, last_fetch, last_fetch_lock, kid, new_keys, refreshes,
                 env_vars, build_vars>>
  /\ RecordHistory

\* ------------------------------------------------------------ refresh_keys
\* SendRequest that takes the write lock on keys before the GET, so that
\* the fetch runs under the lock.
SendRequest_UnderKeysLock(t) ==
  /\ pc[t] = "refresh"
  /\ CanWrite(keys_lock)
  /\ keys_lock' = WriteLocked(keys_lock, t)
  /\ refreshes' = [refreshes EXCEPT ![t] = @ + 1]
  /\ pc' = [pc EXCEPT ![t] = "awaiting"]
  /\ UNCHANGED <<keys, last_fetch, last_fetch_lock, kid, should_refresh, new_keys, result,
                 env_vars, build_vars>>
  /\ RecordHistory

\* self.refresh_keys().await: the GET is sent.
SendRequest(t) ==
  /\ pc[t] = "refresh"
  /\ refreshes' = [refreshes EXCEPT ![t] = @ + 1]
  /\ pc' = [pc EXCEPT ![t] = "awaiting"]
  /\ UNCHANGED <<cache_vars, kid, should_refresh, new_keys, result,
                 env_vars, build_vars>>
  /\ RecordHistory

\* ResponseFails that invalidates the cache on a failed fetch.
ResponseFails_Invalidating(t, failure) ==
  /\ pc[t] = "awaiting"
  /\ provider = "down"
  /\ result' = [result EXCEPT ![t] =
                  IF failure = "bad_json" THEN Err("ParseError") ELSE Err("FetchError")]
  /\ pc' = [pc EXCEPT ![t] = "idle"]
  /\ should_refresh' = [should_refresh EXCEPT ![t] = FALSE]
  /\ keys' = EmptyKeys
  /\ last_fetch' = NoInstant
  /\ UNCHANGED <<keys_lock, last_fetch_lock, kid, new_keys, refreshes, env_vars, build_vars>>
  /\ RecordHistory

\* send() fails, or the status is not a success: FetchError; the body is
\* not a JwksResponse: ParseError.  `?` returns it from get_key as well.
ResponseFails(t, failure) ==
  /\ pc[t] = "awaiting"
  /\ provider = "down"
  /\ result' = [result EXCEPT ![t] =
                  IF failure = "bad_json" THEN Err("ParseError") ELSE Err("FetchError")]
  /\ pc' = [pc EXCEPT ![t] = "idle"]
  /\ should_refresh' = [should_refresh EXCEPT ![t] = FALSE]
  /\ UNCHANGED <<cache_vars, kid, new_keys, refreshes, env_vars, build_vars>>
  /\ RecordHistory

\* ResponseParsed that records the fetch time as soon as the body has
\* parsed, before the mapping is written.
ResponseParsed_StampingFirst(t) ==
  /\ pc[t] = "awaiting"
  /\ provider \in DocIds
  /\ new_keys' = [new_keys EXCEPT ![t] = BuildKeys(Documents[provider])]
  /\ last_fetch' = Some(now)
  /\ pc' = [pc EXCEPT ![t] = "swap_wait"]
  /\ UNCHANGED <<keys, keys_lock, last_fetch_lock, kid, should_refresh, result, refreshes,
                 env_vars, build_vars>>
  /\ RecordHistory

\* The body parses; the loop builds new_keys.
ResponseParsed(t) ==
  /\ pc[t] = "awaiting"
  /\ provider \in DocIds
  /\ new_keys' = [new_keys EXCEPT ![t] = BuildKeys(Documents[provider])]
  /\ pc' = [pc EXCEPT ![t] = "swap_wait"]
  /\ UNCHANGED <<cache_vars, kid, should_refresh, result, refreshes,
                 env_vars, build_vars>>
  /\ RecordHistory

\* let mut keys = self.keys.write().await;
LockKeysWrite(t) ==
  /\ pc[t] = "swap_wait"
  /\ CanWrite(keys_lock)
  /\ keys_lock' = WriteLocked(keys_lock, t)
  /\ pc' = [pc EXCEPT ![t] = "swap"]
  /\ UNCHANGED <<keys, last_fetch, last_fetch_lock, kid, should_refresh, new_keys, result,
                 refreshes, env_vars, build_vars>>
  /\ RecordHistory

\* SwapKeys that extends the mapping (HashMap::extend) instead of replacing it.
SwapKeys_Extending(t) ==
  /\ pc[t] = "swap"
  /\ keys' = [k \in DOMAIN keys \cup DOMAIN new_keys[t] |->
                IF k \in DOMAIN new_keys[t] THEN new_keys[t][k] ELSE keys[k]]
  /\ new_keys' = [new_keys EXCEPT ![t] = EmptyKeys]
  /\ keys_lock' = WriteUnlocked(keys_lock)
  /\ pc' = [pc EXCEPT ![t] = "stamp_wait"]
  /\ UNCHANGED <<last_fetch, last_fetch_lock, kid, should_refresh, result,
                 refreshes, env_vars, build_vars>>
  /\ RecordHistory

\* SwapKeys that keeps the old mapping when the new one is empty.
SwapKeys_KeepingWhenEmpty(t) ==
  /\ pc[t] = "swap"
  /\ keys' = IF new_keys[t] = EmptyKeys THEN keys ELSE new_keys[t]
  /\ new_keys' = [new_keys EXCEPT ![t] = EmptyKeys]
  /\ keys_lock' = WriteUnlocked(keys_lock)
  /\ pc' = [pc EXCEPT ![t] = "stamp_wait"]
  /\ UNCHANGED <<last_fetch, last_fetch_lock, kid, should_refresh, result,
                 refreshes, env_vars, build_vars>>
  /\ RecordHistory

\* SwapKeys that inserts the new entries beside the old ones and keeps the
\* old entry of a key identifier both have.
SwapKeys_Merging(t) ==
  /\ pc[t] = "swap"
  /\ keys' = [k \in DOMAIN keys \cup DOMAIN new_keys[t] |->
                IF k \in DOMAIN keys THEN keys[k] ELSE new_keys[t][k]]
  /\ new_keys' = [new_keys EXCEPT ![t] = EmptyKeys]
  /\ keys_lock' = WriteUnlocked(keys_lock)
  /\ pc' = [pc EXCEPT ![t] = "stamp_wait"]
  /\ UNCHANGED <<last_fetch, last_fetch_lock, kid, should_refresh, result,
                 refreshes, env_vars, build_vars>>
  /\ RecordHistory

\* *keys = new_keys; the guard is dropped.
SwapKeys(t) ==
  /\ pc[t] = "swap"
  /\ keys' = new_keys[t]
  /\ new_keys' = [new_keys EXCEPT ![t] = EmptyKeys]
  /\ keys_lock' = WriteUnlocked(keys_lock)
  /\ pc' = [pc EXCEPT ![t] = "stamp_wait"]
  /\ UNCHANGED <<last_fetch, last_fetch_lock, kid, should_refresh, result,
                 refreshes, env_vars, build_vars>>
  /\ RecordHistory

\* let mut last_fetch = self.last_fetch.write().await;
LockLastFetchWrite(t) ==
  /\ pc[t] = "stamp_wait"
  /\ CanWrite(last_fetch_lock)
  /\ last_fetch_lock' = WriteLocked(last_fetch_lock, t)
  /\ pc' = [pc EXCEPT ![t] = "stamp"]
  /\ UNCHANGED <<keys, last_fetch, keys_lock, kid, should_refresh, new_keys, result,
                 refreshes, env_vars, build_vars>>
  /\ RecordHistory

\* *last_fetch = Some(Instant::now()); the guard is dropped; Ok(()).
StampLastFetch(t) ==
  /\ pc[t] = "stamp"
  /\ last_fetch' = Some(now)
  /\ last_fetch_lock' = WriteUnlocked(last_fetch_lock)
  /\ pc' = [pc EXCEPT ![t] = "retry_lookup"]
  /\ UNCHANGED <<keys, keys_lock, kid, should_refresh, new_keys, result,
                 refreshes, env_vars, build_vars>>
  /\ RecordHistory

\* ------------------------------------------------------------ get_key, after the refresh
\* let keys = self.keys.read().await;
\* keys.get(kid).map(..).ok_or_else(|| JwksError::KeyNotFound(..))
RetryLookup(t) ==
  /\ pc[t] = "retry_lookup"
  /\ CanRead(keys_lock)
  /\ keys_lock' = ReadUnlocked(ReadLocked(keys_lock, t), t)
  /\ result' = [result EXCEPT ![t] =
                  IF kid[t] \in DOMAIN keys THEN Ok(keys[kid[t]]) ELSE Err("KeyNotFound")]
  /\ pc' = [pc EXCEPT ![t] = "idle"]
  /\ should_refresh' = [should_refresh EXCEPT ![t] = FALSE]
  /\ UNCHANGED <<keys, last_fetch, last_fetch_lock, kid, new_keys,
                 refreshes, env_vars, build_vars>>
  /\ RecordHistory

\* ------------------------------------------------------------ environment
\* Time passes: exactly the freshness window, or a second more.
Tick(d) ==
  /\ ticks < MaxTicks
  /\ ticks' = ticks + 1
  /\ now' = now + d
  /\ UNCHANGED <<cache_vars, task_vars, provider, stable, build_vars>>
  /\ RecordHistory

\* The provider rotates its keys, goes down, or comes back.
ProviderChanges(p) ==
  /\ p # provider
  /\ provider' = p
  /\ stable' = FALSE
  /\ UNCHANGED <<cache_vars, task_vars, now, ticks, build_vars>>
  /\ RecordHistory

\* The steps of one task that need nothing but the scheduler and the locks.
TaskStep(t) ==
  \/ CheckStale(t)
  \/ CacheLookup(t)
  \/ SendRequest(t)
  \/ LockKeysWrite(t)
  \/ SwapKeys(t)
  \/ LockLastFetchWrite(t)
  \/ StampLastFetch(t)
  \/ RetryLookup(t)

\* The steps of one task that need the provider's answer.
NetworkStep(t) ==
  \/ \E failure \in FetchFailures : ResponseFails(t, failure)
  \/ ResponseParsed(t)

Next ==
  \/ \E t \in Tasks, k \in CallKids : Call(t, k)
  \/ \E t \in Tasks : TaskStep(t)
  \/ \E t \in Tasks : NetworkStep(t)
  \/ \E d \in {cache_duration, cache_duration + 1} : Tick(d)
  \/ \E p \in ProviderStates : ProviderChanges(p)

\* ------------------------------------------------------------ require_auth
\* One request through the middleware.  Each step is the code between two
\* `?`: it either goes on or returns Err(AuthError), which axum turns into
\* the response with into_response().
InitAuth ==
  /\ InitCache
  /\ provider = "down"
  /\ tracing = FALSE
  /\ jwks = << >>
  /\ built = [done |-> FALSE, keys |-> EmptyKeys]
  /\ clerk_config \in ClerkConfigs
  /\ request \in Requests
  /\ unix_time = ValidationTime
  /\ stage = "NoToken"
  /\ token = Absent
  /\ resolved = NoResult
  /\ extensions = NoClaims
  /\ response = NoResponse
  /\ handler = [ran |-> FALSE, claims |-> NoClaims]

rest_vars == <<cache_vars, task_vars, env_vars, history_vars, jwks, built,
               clerk_config, request, unix_time>>

\* return Err(error)
Fail(error) ==
  /\ stage' = "Failed"
  /\ response' = IntoResponse(error)

\* let auth_header = request.headers().get(AUTHORIZATION)
\*     .and_then(|h| h.to_str().ok()).ok_or(AuthError::MissingToken)?;
\* let token = extract_bearer_token(auth_header).ok_or(AuthError::MissingToken)?;
ExtractToken ==
  /\ stage = "NoToken"
  /\ LET h == request.authorization
         tok == IF h.kind = "text" THEN extract_bearer_token(h.value) ELSE Absent
     IN IF tok = Absent
        THEN Fail("MissingToken") /\ UNCHANGED token
        ELSE /\ token' = tok
             /\ stage' = "TokenExtracted"
             /\ UNCHANGED response
  /\ UNCHANGED <<rest_vars, resolved, extensions, handler>>

\* let header = decode_header(token).map_err(..InvalidToken..)?;
\* let kid = header.kid.ok_or_else(|| AuthError::InvalidToken(..))?;
DecodeHeader ==
  /\ stage = "TokenExtracted"
  /\ IF token[1] = << >> \/ request.jwt.header # "kid"
     THEN Fail("InvalidToken")
     ELSE stage' = "HeaderParsed" /\ UNCHANGED response
  /\ UNCHANGED <<rest_vars, token, resolved, extensions, handler>>

\* let (decoding_key, algorithm) = jwks_cache.get_key(&kid).await
\*     .map_err(|e| AuthError::JwksError(e.to_string()))?;
ResolveKey(r) ==
  /\ stage = "HeaderParsed"
  /\ resolved' = r
  /\ IF r.kind = "Ok"
     THEN stage' = "KeyResolved" /\ UNCHANGED response
     ELSE Fail("JwksError")
  /\ UNCHANGED <<rest_vars, token, extensions, handler>>

\* DecodeToken that attaches the claims before it looks at the outcome.
DecodeToken_AttachingFirst(kind) ==
  /\ stage = "KeyResolved"
  /\ kind \in DecodeErrorKinds(request.jwt,
                               ConfigureValidation(resolved.key.algorithm, clerk_config),
                               unix_time)
  /\ extensions' = SomeClaims(request.jwt.claims)
  /\ IF kind = "none"
     THEN stage' = "Verified" /\ UNCHANGED response
     ELSE Fail(MapDecodeError(kind))
  /\ UNCHANGED <<rest_vars, token, resolved, handler>>

\* let token_data = decode::<Claims>(token, &decoding_key, &validation).map_err(..)?;
\* request.extensions_mut().insert(AuthenticatedUser(token_data.claims));
DecodeToken(kind) ==
  /\ stage = "KeyResolved"
  /\ kind \in DecodeErrorKinds(request.jwt,
                               ConfigureValidation(resolved.key.algorithm, clerk_config),
                               unix_time)
  /\ IF kind = "none"
     THEN /\ extensions' = SomeClaims(request.jwt.claims)
          /\ stage' = "Verified"
          /\ UNCHANGED response
     ELSE Fail(MapDecodeError(kind)) /\ UNCHANGED extensions
  /\ UNCHANGED <<rest_vars, token, resolved, handler>>

\* Ok(next.run(request).await): the handler runs, and its Claims extractor
\* (FromRequestParts) reads the AuthenticatedUser from the extensions.
RunNext ==
  /\ stage = "Verified"
  /\ ~handler.ran
  /\ handler' = [ran |-> TRUE, claims |-> extensions]
  /\ response' = [status |-> 200, body_status |-> 200, error |-> None]
  /\ UNCHANGED <<rest_vars, stage, token, resolved, extensions>>

DecodeKinds ==
  {"none", "InvalidAlgorithm", "InvalidSignature", "Json", "ExpiredSignature",
   "ImmatureSignature", "InvalidIssuer", "InvalidAudience"}

NextAuth ==
  \/ ExtractToken
  \/ DecodeHeader
  \/ \E r \in GetKeyResults : ResolveKey(r)
  \/ \E kind \in DecodeKinds : DecodeToken(kind)
  \/ RunNext

SpecAuth == InitAuth /\ [][NextAuth]_vars

\* ------------------------------------------------------------ the parsing loop alone
\* Every JwkKey the loop can meet: RSA entries with each declared algorithm
\* and each state of the components, and EC entries, one of them dressed
\* up with RSA fields.
RsaComponents ==
  { <<"n1", "AQAB">>, <<"n2", "AQAB">>, <<None, "AQAB">>, <<"n1", None>>,
    <<"!!", "AQAB">>, <<"n1", "!!">> }
DeclaredAlgorithms == {None, "RS256", "RS384", "RS512", "PS256"}
JwkKeys ==
  { JwkKey("RSA", k, a, c[1], c[2]) : k \in Kids, a \in DeclaredAlgorithms, c \in RsaComponents }
  \cup { JwkKey("EC", k, "ES256", None, None) : k \in Kids }
  \cup { JwkKey("EC", k, "RS256", "n1", "AQAB") : k \in Kids }

\* Every JwksResponse.keys of at most MaxDocLen entries.
KeySets == UNION { [1..n -> JwkKeys] : n \in 0..MaxDocLen }

InitBuild ==
  /\ InitCache
  /\ provider = "down"
  /\ tracing = FALSE
  /\ jwks \in KeySets
  /\ built = [done |-> FALSE, keys |-> EmptyKeys]
  /\ AuthIdle

\* let mut new_keys = HashMap::new(); for key in jwks.keys { .. }
ParseKeySet ==
  /\ ~built.done
  /\ built' = [done |-> TRUE, keys |-> BuildKeys(jwks)]
  /\ UNCHANGED <<cache_vars, task_vars, env_vars, history_vars, jwks, auth_vars>>

SpecBuild == InitBuild /\ [][ParseKeySet]_vars

Spec == Init /\ [][Next]_vars

SpecTraced == InitTraced /\ [][Next]_vars

\* tokio runs every task that can run, and its RwLock serves waiters in
\* order: a task that can take a step again and again does take it.  The
\* provider owes no answer, callers owe no call, and the clock no tick.
Fairness == \A t \in Tasks : SF_vars(TaskStep(t))

FairSpec == Spec /\ Fairness

\* A provider that answers again and again gets its answer through: the
\* response of a fetch arrives unless the provider stays silent for good.
NetworkFairness == \A t \in Tasks : SF_vars(NetworkStep(t))

FairNetSpec == Spec /\ Fairness /\ NetworkFairness

\* ================================================================ properties
Returning(t) == pc[t] # "idle" /\ pc'[t] = "idle"
Returned(t) == pc[t] = "idle" /\ result[t] # NoResult
RefreshErrors == {"FetchError", "ParseError"}
AllowList == {"RS256", "RS384", "RS512"}

\* The cache is not stale: a fetch has succeeded and is at most one
\* freshness window old.
Fresh == last_fetch # NoInstant /\ now - last_fetch[1] <= cache_duration

\* Key identifiers that occur in some document of the provider.
PublishedKids ==
  UNION {{Documents[d][i].kid : i \in DOMAIN Documents[d]} : d \in DocIds}

\* C1: a get_key that finds the cache not stale and its key in the mapping
\* returns that cached key and algorithm at once, having called
\* refresh_keys not at all: the staleness check of a fresh cache says "no
\* refresh", and the lookup that follows it returns from the cache.
C1_FreshHitReturnsCached ==
  [][\A t \in Tasks :
       /\ (pc[t] = "get_key" /\ pc'[t] = "cache_lookup" /\ Fresh)
            => ~should_refresh'[t]
       /\ (pc[t] = "cache_lookup" /\ pc'[t] # "cache_lookup"
             /\ ~should_refresh[t] /\ kid[t] \in DOMAIN keys)
            => /\ pc'[t] = "idle"
               /\ result'[t] = Ok(keys[kid[t]])
               /\ refreshes'[t] = 0]_vars

\* A call has returned a key from the cache, without a refresh, and the
\* cache is exactly one freshness window old.
C1_Witness ==
  \E t \in Tasks :
    /\ Returned(t) /\ result[t].kind = "Ok" /\ refreshes[t] = 0
    /\ last_fetch # NoInstant /\ now - last_fetch[1] = cache_duration

\* C2 as claimed: get_key for a key identifier of no document fails with
\* KeyNotFound after exactly one refresh.
C2_UnpublishedIsKeyNotFound ==
  \A t \in Tasks :
    (Returned(t) /\ kid[t] \notin PublishedKids)
      => (result[t].kind = "KeyNotFound" /\ refreshes[t] = 1)

\* C2 as amended: get_key for a key identifier of no document fails after
\* exactly one refresh, whatever the freshness: with KeyNotFound when the
\* refresh succeeded (the call got to its second lookup), and with the
\* refresh's FetchError or ParseError when it failed.
C2_UnpublishedFailsAfterOneRefresh ==
  /\ [](\A t \in Tasks :
          (Returned(t) /\ kid[t] \notin PublishedKids)
            => (refreshes[t] = 1
                /\ result[t].kind \in {"KeyNotFound"} \cup RefreshErrors))
  /\ [][\A t \in Tasks :
          (Returning(t) /\ kid[t] \notin PublishedKids)
            => /\ pc[t] \in {"awaiting", "retry_lookup"}
               /\ (pc[t] = "retry_lookup" => result'[t].kind = "KeyNotFound")
               /\ (pc[t] = "awaiting" => result'[t].kind \in RefreshErrors)]_vars

\* A call for an unpublished key identifier has failed with KeyNotFound
\* while the cache was populated and fresh.
C2_Witness ==
  \E t \in Tasks :
    /\ Returned(t) /\ kid[t] \notin PublishedKids
    /\ result[t].kind = "KeyNotFound" /\ refreshes[t] = 1
    /\ keys # EmptyKeys /\ Fresh

\* C3: no step of a refresh that fails with FetchError or ParseError writes
\* the cache: sending the request and receiving the failure both leave the
\* key mapping and the last-fetch timestamp as they were.
C3_FailedRefreshWritesNothing ==
  [][\A t \in Tasks :
       ((pc[t] = "refresh" /\ pc'[t] = "awaiting")
          \/ (pc[t] = "awaiting" /\ pc'[t] = "idle" /\ result'[t].kind \in RefreshErrors))
       => (keys' = keys /\ last_fetch' = last_fetch)]_vars

\* The only task that ever called has populated the cache and then had a
\* refresh fail; the mapping and the timestamp are still there.
C3_Witness ==
  \E t \in Tasks :
    /\ Returned(t) /\ result[t].kind \in RefreshErrors
    /\ \A u \in Tasks \ {t} : pc[u] = "idle" /\ result[u] = NoResult
    /\ keys # EmptyKeys /\ last_fetch # NoInstant

C7_OnlyAllowListedAlgorithms ==
  /\ \A k \in DOMAIN keys : keys[k].algorithm \in AllowList
  /\ \A t \in Tasks :
       /\ \A k \in DOMAIN new_keys[t] : new_keys[t][k].algorithm \in AllowList
       /\ result[t].kind = "Ok" => result[t].key.algorithm \in AllowList

\* A document with an entry outside the allow-list (doc1: k2 declares PS256)
\* has been cached, and a key was returned from it.
C7_Witness ==
  /\ "k1" \in DOMAIN keys /\ "k2" \notin DOMAIN keys
  /\ \E t \in Tasks : Returned(t) /\ result[t].kind = "Ok"

\* C10 as claimed: once a refresh that yields no usable key has emptied the
\* mapping and the timestamp is set, every get_key that returns while the
\* mapping is still empty fails with KeyNotFound.
C10_EmptyCacheIsKeyNotFound ==
  [][\A t \in Tasks :
       (Returning(t) /\ ~should_refresh[t] /\ keys = EmptyKeys /\ last_fetch # NoInstant)
         => result'[t].kind = "KeyNotFound"]_vars

\* C10 as amended: a refresh whose document yields no usable key goes the
\* way of every successful refresh: it swaps the empty mapping in and then
\* stamps last_fetch, after which the cache is fresh; a get_key that
\* returns while the mapping is empty never returns a key: it has made a
\* refresh of its own and fails with KeyNotFound when that refresh
\* succeeded and with its FetchError or ParseError when it failed.
C10_EmptyRefreshSucceeds ==
  [][\A t \in Tasks :
       /\ (Swapped(t) /\ new_keys[t] = EmptyKeys)
            => (keys' = EmptyKeys /\ pc'[t] = "stamp_wait")
       /\ Stamped(t) => (last_fetch' = Some(now) /\ ~IsStale(last_fetch', now'))
       /\ (Returning(t) /\ keys = EmptyKeys)
            => /\ refreshes'[t] = 1
               /\ pc[t] \in {"awaiting", "retry_lookup"}
               /\ (pc[t] = "retry_lookup" => result'[t].kind = "KeyNotFound")
               /\ (pc[t] = "awaiting" => result'[t].kind \in RefreshErrors)]_vars

\* A refresh that built nothing has replaced a populated mapping, the cache
\* is fresh, and a get_key for a published identifier got KeyNotFound.
C10_Witness ==
  /\ keys = EmptyKeys /\ Fresh
  /\ \E t, u \in Tasks :
       /\ t # u /\ Returned(u) /\ result[u].kind = "Ok"
       /\ Returned(t) /\ result[t].kind = "KeyNotFound" /\ kid[t] \in PublishedKids

\* An entry the loop keeps: RSA, with modulus and exponent, an algorithm of
\* the allow-list or none, and components a key can be constructed from.
Usable(key) ==
  /\ key.kty = "RSA"
  /\ key.n # None /\ key.e # None
  /\ key.alg \in AllowList \cup {None}
  /\ key.n \in Base64Url /\ key.e \in Base64Url

\* The cached key of a usable entry: RS256 when no algorithm is declared.
ExpectedKey(key) ==
  [decoding_key |-> <<key.n, key.e>>,
   algorithm |-> IF key.alg = None THEN "RS256" ELSE key.alg]

UsableAt(doc) == {i \in DOMAIN doc : Usable(doc[i])}
LastUsable(doc, k) ==
  CHOOSE i \in UsableAt(doc) :
    /\ doc[i].kid = k
    /\ \A j \in UsableAt(doc) : doc[j].kid = k => j <= i

\* C6 as claimed: the mapping built from a document holds exactly its usable
\* entries: every usable entry is in the mapping under its kid, and every
\* entry of the mapping is a usable entry of the document.
C6_ExactlyTheUsableEntries ==
  built.done =>
    /\ \A i \in UsableAt(jwks) :
         /\ jwks[i].kid \in DOMAIN built.keys
         /\ built.keys[jwks[i].kid] = ExpectedKey(jwks[i])
    /\ \A k \in DOMAIN built.keys :
         \E i \in UsableAt(jwks) : jwks[i].kid = k /\ built.keys[k] = ExpectedKey(jwks[i])

\* C6 as amended: the mapping built from a document holds the kids of
\* exactly its usable entries, each with the key and algorithm (RS256 when
\* none is declared) of the last usable entry of that kid in document
\* order; every other entry is dropped and the build still completes.
C6_LastUsableEntryPerKid ==
  built.done =>
    /\ DOMAIN built.keys = {jwks[i].kid : i \in UsableAt(jwks)}
    /\ \A k \in DOMAIN built.keys :
         built.keys[k] = ExpectedKey(jwks[LastUsable(jwks, k)])

\* A document with an entry that is dropped beside a usable one has been
\* built into a mapping holding the usable one.
C6_Witness ==
  /\ built.done
  /\ \E i, j \in DOMAIN jwks :
       /\ ~Usable(jwks[i]) /\ jwks[i].kty = "RSA" /\ Usable(jwks[j])
       /\ jwks[i].kid # jwks[j].kid
       /\ DOMAIN built.keys = {jwks[j].kid}

\* A task that has not called get_key so far.
NeverCalled(t) == pc[t] = "idle" /\ result[t] = NoResult

\* C4 as claimed: once a refresh has failed, a get_key for a key identifier
\* that is in the mapping (the mapping was last written before that
\* failure) returns the key.  Stated for a caller that is alone, so that
\* the failed refresh is one of its own earlier calls.
C4_CachedKeyResolvesAfterFailedRefresh ==
  [][\A t \in Tasks :
       (/\ Returning(t)
        /\ failed_since
        /\ kid[t] \in DOMAIN keys
        /\ \A u \in Tasks \ {t} : NeverCalled(u))
         => result'[t] = Ok(keys[kid[t]])]_vars

\* No refresh is in progress: every task is outside refresh_keys.
Quiescent == \A t \in Tasks : pc[t] \in {"idle", "get_key", "cache_lookup", "retry_lookup"}

\* C8 as claimed: whenever no refresh is in progress and some fetch has
\* succeeded, the key mapping is the key set built from the most recent
\* successful fetch.
C8_MappingIsLatestFetch ==
  (Quiescent /\ latest.task # NoTask) => keys = latest.keys

\* A lock that is held is held by a task whose next step releases it, and
\* no read guard outlives its lookup.
LocksAreReleased ==
  /\ keys_lock.readers = {} /\ last_fetch_lock.readers = {}
  /\ keys_lock.writer # NoTask => pc[keys_lock.writer] = "swap"
  /\ last_fetch_lock.writer # NoTask => pc[last_fetch_lock.writer] = "stamp"

HasBearerScheme(value) ==
  /\ Len(value) >= Len(bearerPrefix)
  /\ [i \in 1..Len(bearerPrefix) |-> ToLower(value[i])] = bearerPrefix

\* C11 as claimed: once require_auth has looked at the Authorization
\* header, a value that starts with "Bearer " in any letter case has
\* yielded the text after the prefix as the token, and every other value
\* (and a missing or unreadable header) has failed the request with
\* MissingToken.
C11_BearerInAnyCaseYieldsToken ==
  stage # "NoToken" =>
    LET h == request.authorization
    IN IF h.kind = "text" /\ HasBearerScheme(h.value)
       THEN token = Some(SubSeq(h.value, Len(bearerPrefix) + 1, Len(h.value)))
       ELSE stage = "Failed" /\ response.error = "MissingToken"

\* decode has run: get_key returned a key and the request went on or failed.
Decoded == resolved.kind = "Ok" /\ stage \in {"Verified", "Failed"}

\* The token is signed with the algorithm and the key that get_key
\* returned, and its payload has the shape of Claims.
SignedAndShaped ==
  /\ request.jwt.alg = resolved.key.algorithm
  /\ request.jwt.signature = "valid"
  /\ DeserializesIntoClaims(request.jwt.claims)

\* C13 as claimed: a token with a valid signature and the configured
\* issuer whose exp is before the time of validation, by any amount, is
\* rejected with ExpiredToken.
C13_ExpiredByAnyAmountIsRejected ==
  (/\ Decoded /\ SignedAndShaped
   /\ request.jwt.claims.iss = clerk_config.issuer
   /\ request.jwt.claims.exp < unix_time)
    => (stage = "Failed" /\ response.error = "ExpiredToken")

\* C13 as amended: a token with a valid signature and the configured
\* issuer is rejected with ExpiredToken exactly when its exp is more than
\* the 60 seconds of leeway before the time of validation; an exp that is
\* in the past by 60 seconds or less does not fail the request as expired.
C13_ExpiredBeyondLeewayIsRejected ==
  (/\ Decoded /\ SignedAndShaped
   /\ request.jwt.claims.iss = clerk_config.issuer)
    => ((request.jwt.claims.exp < unix_time - leeway)
          <=> (stage = "Failed" /\ response.error = "ExpiredToken"))

\* A token that is well signed, from the configured issuer, and expired by
\* 61 seconds has been rejected with ExpiredToken.
C13_Witness ==
  /\ Decoded /\ SignedAndShaped
  /\ request.jwt.claims.iss = clerk_config.issuer
  /\ request.jwt.claims.exp = unix_time - leeway - 1
  /\ stage = "Failed" /\ response.error = "ExpiredToken" /\ response.status = 401

OtherChecksPass ==
  /\ request.jwt.alg = resolved.key.algorithm
  /\ request.jwt.signature = "valid"
  /\ request.jwt.claims.complete
  /\ request.jwt.claims.exp >= unix_time
  /\ request.jwt.claims.iss = clerk_config.issuer

\* C15 as claimed: with no audience configured, a token whose other checks
\* pass is accepted whatever its aud claim is, or without one; with an
\* audience configured, a token whose aud does not contain it is rejected.
C15_AudienceCheckedOnlyWhenConfigured ==
  (Decoded /\ OtherChecksPass) =>
    /\ clerk_config.audience = Absent => stage = "Verified"
    /\ (/\ clerk_config.audience # Absent
        /\ request.jwt.claims.aud.kind # "absent"
        /\ clerk_config.audience[1] \notin request.jwt.claims.aud.values)
         => stage = "Failed"

\* C16 as claimed: a token whose nbf is after the time of validation is
\* rejected, and no Claims are attached to the request.
C16_NotYetValidIsRejected ==
  (/\ Decoded
   /\ request.jwt.claims.nbf # Absent
   /\ request.jwt.claims.nbf[1] > unix_time)
    => (stage = "Failed" /\ ~extensions.present)

\* C17: a failed request carries the status of its error: 401 for
\* MissingToken, InvalidToken, ExpiredToken and InvalidIssuer, 500 for
\* JwksError; the status of the body is the HTTP status; and a get_key that
\* failed (KeyNotFound, FetchError, ParseError) is what makes a JwksError.
C17_StatusFollowsErrorClass ==
  stage = "Failed" =>
    /\ response.error \in AuthErrors
    /\ response.error \in {"MissingToken", "InvalidToken", "ExpiredToken", "InvalidIssuer"}
         => response.status = 401
    /\ response.error = "JwksError" => response.status = 500
    /\ response.body_status = response.status
    /\ (resolved.kind \in {"KeyNotFound", "FetchError", "ParseError"})
         <=> response.error = "JwksError"

\* A request whose key was not found has been answered with 500.
C17_Witness ==
  /\ stage = "Failed" /\ resolved.kind = "KeyNotFound"
  /\ response.error = "JwksError" /\ response.status = 500 /\ response.body_status = 500

\* The order of the stages of a request.
StageOrder ==
  {<<"NoToken", "TokenExtracted">>, <<"TokenExtracted", "HeaderParsed">>,
   <<"HeaderParsed", "KeyResolved">>, <<"KeyResolved", "Verified">>}

\* C18: a request moves from each stage to the next one in the order
\* NoToken, TokenExtracted, HeaderParsed, KeyResolved, Verified, or from a
\* stage before Verified to Failed, and leaves neither Verified nor
\* Failed; Claims are in the extensions only of a Verified request, and
\* the handler runs, with those Claims, only for a Verified request.
C18_StagesInOrderHandlerOnlyWhenVerified ==
  /\ [][/\ stage' # stage
             => \/ <<stage, stage'>> \in StageOrder
                \/ stage \notin {"Verified", "Failed"} /\ stage' = "Failed"
        /\ handler'.ran /\ ~handler.ran => stage = "Verified"]_vars
  /\ [](extensions.present => stage = "Verified")
  /\ [](handler.ran => /\ stage = "Verified"
                       /\ handler.claims = SomeClaims(request.jwt.claims))
  /\ [](stage = "Failed" => ~handler.ran /\ response.status # 200)

\* A request has been verified and its handler has extracted the Claims.
C18_Witness ==
  /\ stage = "Verified" /\ handler.ran /\ handler.claims.present
  /\ response.status = 200

\* ------------------------------------------------------------ key cache: further properties
\* C12 as claimed: a get_key that has started a refresh returns: a fetch
\* in flight comes to an end, if need be by a timeout, and the call goes
\* on to return.
C12_StartedRefreshReturns ==
  \A t \in Tasks : (pc[t] = "awaiting") ~> (pc[t] = "idle")

\* Task t holds neither lock, as reader or as writer.
HoldsNoLock(t) ==
  /\ keys_lock.writer # t /\ t \notin keys_lock.readers
  /\ last_fetch_lock.writer # t /\ t \notin last_fetch_lock.readers

\* C19: a task whose refresh is about to fetch, or whose fetch is in
\* flight, holds no lock of the cache; a get_key that cannot read
\* last_fetch, or cannot read the mapping, waits for a task that is inside
\* the swap of the timestamp, or of the mapping, and for nothing else: with
\* every other task in a fetch, both locks are free.
C19_NoLockHeldDuringFetch ==
  /\ \A t \in Tasks : pc[t] \in {"refresh", "awaiting"} => HoldsNoLock(t)
  /\ ~CanRead(last_fetch_lock) => \E u \in Tasks : pc[u] = "stamp"
  /\ ~CanRead(keys_lock) => \E u \in Tasks : pc[u] = "swap"
  /\ (\A u \in Tasks : pc[u] \notin {"swap", "stamp"})
       => (keys_lock = Unlocked /\ last_fetch_lock = Unlocked)

\* While one task's fetch is in flight, another has found the cache fresh
\* and is at its lookup of a key that is in the mapping, and the lock
\* of the mapping is free for it.
C19_Witness ==
  \E t, u \in Tasks :
    /\ t # u /\ pc[u] = "awaiting"
    /\ pc[t] = "cache_lookup" /\ ~should_refresh[t] /\ kid[t] \in DOMAIN keys
    /\ CanRead(keys_lock) /\ Fresh

\* The key sets a successful fetch can build.
FetchedKeySets == {BuildKeys(Documents[d]) : d \in DocIds}

\* C20: the key mapping is the initial empty mapping or the complete key
\* set built from one fetched document, in every state, and so is every
\* key a get_key returns an entry of one such set.
C20_MappingIsOneWholeKeySet ==
  /\ keys \in {EmptyKeys} \cup FetchedKeySets
  /\ \A t \in Tasks :
       result[t].kind = "Ok"
         => \E ks \in FetchedKeySets :
              kid[t] \in DOMAIN ks /\ ks[kid[t]] = result[t].key

\* The mapping holds the key set of one document while a concurrent
\* refresh is inside its swap with the different key set of another.
C20_Witness ==
  \E t \in Tasks :
    /\ pc[t] = "swap"
    /\ keys # EmptyKeys /\ new_keys[t] # EmptyKeys /\ new_keys[t] # keys
    /\ DOMAIN keys \cap DOMAIN new_keys[t] # {}

\* C21: get_key serves no key from a stale cache without a successful
\* refresh.  The staleness check says "no refresh" only of a cache that
\* is not stale.  A step by which get_key returns a key is either the
\* first lookup of a call that observed the cache not stale and has made
\* no refresh, or the lookup after the one refresh of that call, which
\* has moved its key set into the mapping and set the timestamp.
C21_KeyOnlyFromFreshOrRefreshedCache ==
  [][\A t \in Tasks :
       /\ (pc[t] = "get_key" /\ pc'[t] = "cache_lookup" /\ ~should_refresh'[t])
            => Fresh
       /\ (Returning(t) /\ result'[t].kind = "Ok")
            => \/ /\ pc[t] = "cache_lookup"
                  /\ ~should_refresh[t]
                  /\ refreshes[t] = 0
               \/ /\ pc[t] = "retry_lookup"
                  /\ refreshes[t] = 1
                  /\ new_keys[t] = EmptyKeys
                  /\ last_fetch # NoInstant]_vars

\* A call that found the cache stale has returned a key after its own
\* refresh, which set the timestamp after the freshness window of a
\* fetch at time 0 had passed.
C21_Witness ==
  \E t \in Tasks :
    /\ Returned(t) /\ result[t].kind = "Ok" /\ refreshes[t] = 1
    /\ last_fetch = Some(now) /\ now > cache_duration

\* C22 as claimed, for the call whose fetch is the most recent one to have
\* succeeded: when the document fetched by the refresh of a get_key call
\* holds a usable key for the call's key identifier, the lookup after the
\* refresh returns a key, whatever other refreshes wrote to the mapping
\* since this call's own write.
C22_OwnFetchedKeyIsReturned ==
  [][\A t \in Tasks :
       (/\ Returning(t) /\ pc[t] = "retry_lookup"
        /\ latest.task = t
        /\ kid[t] \in DOMAIN latest.keys)
         => result'[t].kind = "Ok"]_vars

\* C23: the last-fetch timestamp only moves forward, and it is set only
\* after the mapping was written.  A timestamp that is set is never reset
\* to "never fetched" nor replaced by an earlier instant; the only step
\* that writes it is the stamp of a refresh that has already moved its key
\* set into the mapping, and it writes the current instant.  So with a
\* provider that has published one document all along, a set timestamp is
\* seen only together with the key set of that document, never with the
\* mapping of before the first fetch.
C23_TimestampMovesForwardAfterMapping ==
  /\ [][/\ last_fetch # NoInstant
             => (last_fetch' # NoInstant /\ last_fetch'[1] >= last_fetch[1])
        /\ last_fetch' # last_fetch
             => \E t \in Tasks :
                  /\ pc[t] = "stamp" /\ pc'[t] = "retry_lookup"
                  /\ new_keys[t] = EmptyKeys /\ refreshes[t] = 1
                  /\ last_fetch' = Some(now)]_vars
  /\ []((last_fetch # NoInstant /\ stable /\ provider \in DocIds)
          => keys = BuildKeys(Documents[provider]))

\* A timestamp set by one refresh is about to be replaced with a later
\* instant by another refresh, which holds the write lock of last_fetch;
\* the mapping is not empty.
C23_Witness ==
  \E t \in Tasks :
    /\ pc[t] = "stamp"
    /\ last_fetch # NoInstant /\ last_fetch[1] < now
    /\ keys # EmptyKeys

====
